---- MODULE Spec2Model ----
(***************************************************************************)
(* attiny-controller: the power orchestrator of src/main.go.               *)
(*                                                                         *)
(* Two threads of control: the main sequence (runMain, called by main) and *)
(* the watchdog goroutine started at main.go:100.  Time is counted in      *)
(* minutes.  The clients behind attiny.*, rtc.*, the on-window schedule    *)
(* and the deadline-extension handler live outside main.go; they are       *)
(* modelled from their documented contracts and only their call sites are  *)
(* taken from main.go.                                                     *)
(***************************************************************************)
EXTENDS Integers, Sequences, FiniteSets, TLC

\* ---------------------------------------------------------------- bounds
MaxTime == 40          \* the clock stops advancing here
Day == 8               \* period of the on-window schedule
MaxProbeFails == 2     \* probe failures before the probe is made to succeed
ExtendTo == 40         \* the latest deadline an extension asks for
MaxFaults == 1         \* failed calls per run (probe failures apart)
MaxBcdInput == 99      \* the largest number handed to toBCD

\* ------------------------------------------------------ program constants
initialGracePeriod == 20      \* main.go:36 / main.go:150, minutes
ImminentMinutes == 2          \* main.go:154, time.Minute*2
ConnectMaxAttempts == 0       \* main.go:94, connectToATtinyWithRetries(0)

VARIABLES
    pc,                 \* position of the main sequence
    wdtPc,              \* position of the watchdog goroutine
    busLocked,          \* the bus lock is held
    mainInTx,           \* a transaction of the main sequence is in progress
    now,                \* wall clock, minutes
    args,               \* Args: SkipWait, SkipSystemShutdown
    win,                \* conf.OnWindow: start and end minute within a Day
    stayOnUntil,        \* main.go:47
    saltCommandWaitEnd, \* main.go:48
    attempts,           \* failed probes of the connect call in progress
    alarmTime,          \* local alarmTime of runMain (main.go:132), -1 unset
    sleepUntil,         \* wake-up time of the time.Sleep in progress
    trace,              \* history: main-sequence calls and their outcome
    midWaitExt,         \* history: latest StayOn deadline requested mid-wait
    faults,             \* history: number of failed calls so far
    staleAsk,           \* history: a StayOn Extend asked for an earlier time
    alarmEnabledAt,     \* history: time SetAlarmEnabled succeeded, or -1
    maxAttempts,        \* attempt budget of the connect call, 0 = unbounded
    bcd,                \* a BCD conversion: input, encoded byte, decoded value
    errLog,             \* the calls whose failure was written to the log
    rtcAlarm            \* the alarm written to the RTC, NoAlarm before

vars == <<pc, wdtPc, busLocked, mainInTx, now, args, win, stayOnUntil,
          saltCommandWaitEnd, attempts, alarmTime, sleepUntil, trace,
          midWaitExt, faults, staleAsk, alarmEnabledAt, maxAttempts, bcd,
          errLog, rtcAlarm>>

\* ---------------------------------------------------------------- helpers
Max(a, b) == IF a >= b THEN a ELSE b

Max3(a, b, c) == Max(a, Max(b, c))

\* The process is alive until main returns or log.Fatal exits.
Alive == pc \notin {"exit0", "fatal"}

\* The history holds <<call, succeeded>> pairs in call order.
Did(op) == \E i \in DOMAIN trace : trace[i] = <<op, TRUE>>

Failed(op) == \E i \in DOMAIN trace : trace[i] = <<op, FALSE>>

Called(op) == Did(op) \/ Failed(op)

Count(op) == Cardinality({i \in DOMAIN trace : trace[i][1] = op})

\* ------------------------------------------------------------ BCD codec
\* A byte holds 8 bits: the arithmetic of toBCD wraps at 256.
Byte(x) == x % 256

\* toBCD with the shift applied to the divisor: n / (10 << 4) + n % 10.
toBCD_ShiftOfDivisor(n) == Byte((Byte(n) \div Byte(10 * 16)) + (Byte(n) % 10))

\* main.go:199-201: byte(n)/10<<4 + byte(n)%10; / and << and % bind alike
\* and tighter than +, so this is ((byte(n)/10) << 4) + (byte(n) % 10).
toBCD(n) == Byte(Byte((Byte(n) \div 10) * 16) + (Byte(n) % 10))

\* main.go:174-176: int(b&0x0F) + int(b>>4)*10
fromBCD(b) == (b % 16) + (b \div 16) * 10

\* No conversion in progress.
BcdIdle == [phase |-> "idle", n |-> 0, byte |-> 0, out |-> 0]

\* ------------------------------------------------- on-window schedule
\* conf.OnWindow: a window [win.start, win.end) recurring every Day.
Active(t) == LET m == t % Day IN win.start <= m /\ m < win.end

NextStart(t) == LET m == t % Day IN
                IF m < win.start THEN t - m + win.start
                                 ELSE t - m + Day + win.start

NextEnd(t) == LET m == t % Day IN
              IF m < win.end THEN t - m + win.end
                             ELSE t - m + Day + win.end

\* The condition with the 5 minutes its comment speaks of.
WindowOpenOrImminent_FiveMinutes(t) == Active(t) \/ NextStart(t) - t < 5

\* main.go:154, the condition of the window wait
WindowOpenOrImminent(t) == Active(t) \/ NextStart(t) - t < ImminentMinutes

\* ---------------------------------------------------------------- RTC alarm
\* The alarm registers before runMain has written them.
NoAlarm == [hour |-> -1, minute |-> -1]

\* AlarmTimeFromTime: the hour and minute fields of a wake time.
AlarmTimeFromTime(t) == [hour |-> (t \div 60) % 24, minute |-> t % 60]

\* ------------------------------------------------------------------ Init
\* The state at process start, the connect budget and the BCD conversion
\* apart.
InitBase ==
    /\ pc = "parseConfig"
    /\ wdtPc = "notStarted"
    /\ busLocked = FALSE
    /\ mainInTx = FALSE
    /\ now \in 0 .. (Day - 1)
    /\ args \in [SkipWait : BOOLEAN, SkipSystemShutdown : BOOLEAN]
    /\ win = [start |-> 3, end |-> 6]
    /\ stayOnUntil = now
    /\ saltCommandWaitEnd = 0
    /\ attempts = 0
    /\ alarmTime = -1
    /\ sleepUntil = 0
    /\ trace = <<>>
    /\ midWaitExt = 0
    /\ faults = 0
    /\ staleAsk = FALSE
    /\ alarmEnabledAt = -1
    /\ errLog = {}
    /\ rtcAlarm = NoAlarm

\* The start state with the connect call given a budget of one attempt.
Init_BoundedConnect == InitBase /\ maxAttempts = 1 /\ bcd = BcdIdle

\* runMain asks for an unbounded connect (main.go:94).
Init == InitBase /\ maxAttempts = ConnectMaxAttempts /\ bcd = BcdIdle

\* The connect call made with a finite attempt budget.
RetryInit == InitBase /\ maxAttempts \in 1 .. MaxProbeFails /\ bcd = BcdIdle

\* ------------------------------------------------------------ environment
\* The clock is in minutes.  It advances while the main sequence is blocked
\* in one of its two sleeps, up to the moment the sleep is due.  A bus
\* transaction and the probe retry delay take far less than one clock unit.
MayTick == pc \in {"graceSleep", "windowSleep"} /\ now < sleepUntil

Tick ==
    /\ MayTick
    /\ now < MaxTime
    /\ now' = now + 1
    /\ UNCHANGED <<pc, wdtPc, busLocked, mainInTx, args, win, stayOnUntil,
                   saltCommandWaitEnd, attempts, alarmTime, sleepUntil, trace,
                   midWaitExt, faults, staleAsk, alarmEnabledAt, maxAttempts,
                   bcd, errLog, rtcAlarm>>

\* Extend storing the requested deadline instead of the later of the two.
Extend_Overwrite(kind, t) ==
    /\ Alive
    /\ IF kind = "StayOn"
         THEN /\ stayOnUntil' = t
              /\ UNCHANGED saltCommandWaitEnd
         ELSE /\ saltCommandWaitEnd' = t
              /\ UNCHANGED stayOnUntil
    /\ midWaitExt' = IF kind = "StayOn" /\ pc = "windowSleep" /\ t > sleepUntil
                       THEN Max(midWaitExt, t) ELSE midWaitExt
    /\ staleAsk' = (staleAsk \/ (kind = "StayOn" /\ t < stayOnUntil))
    /\ UNCHANGED <<pc, wdtPc, busLocked, mainInTx, now, args, win, attempts,
                   alarmTime, sleepUntil, trace, faults, alarmEnabledAt,
                   maxAttempts, bcd, errLog, rtcAlarm>>

\* Extend(kind, newDeadline) of the shared deadline state: the named field
\* becomes max(current, newDeadline).  Called by an external handler at any
\* time while the process runs.
Extend(kind, t) ==
    /\ Alive
    /\ IF kind = "StayOn"
         THEN /\ stayOnUntil' = Max(stayOnUntil, t)
              /\ UNCHANGED saltCommandWaitEnd
         ELSE /\ saltCommandWaitEnd' = Max(saltCommandWaitEnd, t)
              /\ UNCHANGED stayOnUntil
    /\ midWaitExt' = IF kind = "StayOn" /\ pc = "windowSleep" /\ t > sleepUntil
                       THEN Max(midWaitExt, t) ELSE midWaitExt
    /\ staleAsk' = (staleAsk \/ (kind = "StayOn" /\ t < stayOnUntil))
    /\ UNCHANGED <<pc, wdtPc, busLocked, mainInTx, now, args, win, attempts,
                   alarmTime, sleepUntil, trace, faults, alarmEnabledAt,
                   maxAttempts, bcd, errLog, rtcAlarm>>

\* The deadlines the external handler asks for.
ExtendTargets == {ExtendTo - 1, ExtendTo}

ExtendAny ==
    \E kind \in {"StayOn", "MaintenancePause"} :
        \E t \in ExtendTargets : Extend(kind, t)

\* PingWatchdog starting its transaction without taking the bus lock.
WdtPingBegin_NoLock ==
    /\ Alive
    /\ wdtPc = "ping"
    /\ busLocked' = TRUE
    /\ wdtPc' = "pinging"
    /\ UNCHANGED <<pc, mainInTx, now, args, win, stayOnUntil,
                   saltCommandWaitEnd, attempts, alarmTime, sleepUntil, trace,
                   midWaitExt, faults, staleAsk, alarmEnabledAt, maxAttempts,
                   bcd, errLog, rtcAlarm>>

\* ------------------------------------------------------ watchdog goroutine
\* main.go:100-105: for { attiny.PingWatchdog(); time.Sleep(5 s) }
\* PingWatchdog is one bus transaction; its result is discarded.
WdtPingBegin ==
    /\ Alive
    /\ wdtPc = "ping"
    /\ ~busLocked
    /\ busLocked' = TRUE
    /\ wdtPc' = "pinging"
    /\ UNCHANGED <<pc, mainInTx, now, args, win, stayOnUntil,
                   saltCommandWaitEnd, attempts, alarmTime, sleepUntil, trace,
                   midWaitExt, faults, staleAsk, alarmEnabledAt, maxAttempts,
                   bcd, errLog, rtcAlarm>>

\* The goroutine treating a failed ping as fatal (log.Fatal).
WdtPingEnd_FatalOnError ==
    /\ Alive
    /\ wdtPc = "pinging"
    /\ \E ok \in BOOLEAN :
          /\ ok \/ faults < MaxFaults
          /\ faults' = IF ok THEN faults ELSE faults + 1
          /\ busLocked' = FALSE
          /\ wdtPc' = "sleep"
          /\ pc' = IF ok THEN pc ELSE "fatal"
    /\ UNCHANGED <<mainInTx, now, args, win, stayOnUntil, saltCommandWaitEnd,
                   attempts, alarmTime, sleepUntil, trace, midWaitExt,
                   staleAsk, alarmEnabledAt, maxAttempts, bcd, errLog,
                   rtcAlarm>>

WdtPingEnd ==
    /\ Alive
    /\ wdtPc = "pinging"
    /\ \E ok \in BOOLEAN :
          /\ ok \/ faults < MaxFaults
          /\ faults' = IF ok THEN faults ELSE faults + 1
          /\ busLocked' = FALSE
          /\ wdtPc' = "sleep"
    /\ UNCHANGED <<pc, mainInTx, now, args, win, stayOnUntil,
                   saltCommandWaitEnd, attempts, alarmTime, sleepUntil, trace,
                   midWaitExt, staleAsk, alarmEnabledAt, maxAttempts, bcd,
                   errLog, rtcAlarm>>

\* The 5 second sleep is shorter than one clock unit.
WdtWake ==
    /\ Alive
    /\ wdtPc = "sleep"
    /\ wdtPc' = "ping"
    /\ UNCHANGED <<pc, busLocked, mainInTx, now, args, win, stayOnUntil,
                   saltCommandWaitEnd, attempts, alarmTime, sleepUntil, trace,
                   midWaitExt, faults, staleAsk, alarmEnabledAt, maxAttempts,
                   bcd, errLog, rtcAlarm>>

\* ------------------------------------------------------------ main sequence
\* The positions at which runMain performs a bus transaction.
TxPcs == {"connect", "initRTC", "readState1", "clearAlarm", "getTime",
          "setAlarmTime", "setAlarmEnabled", "readState2", "readState3",
          "readState4", "poweringOff", "readState5"}

\* A client call takes the bus lock for its one transaction.
MainTxBegin ==
    /\ pc \in TxPcs
    /\ ~mainInTx
    /\ ~busLocked
    /\ busLocked' = TRUE
    /\ mainInTx' = TRUE
    /\ UNCHANGED <<pc, wdtPc, now, args, win, stayOnUntil, saltCommandWaitEnd,
                   attempts, alarmTime, sleepUntil, trace, midWaitExt, faults,
                   staleAsk, alarmEnabledAt, maxAttempts, bcd, errLog,
                   rtcAlarm>>

\* The transaction in progress ends: the lock is released, the call is
\* recorded and the sequence moves on.
Finish(op, ok, next) ==
    /\ ok \/ faults < MaxFaults
    /\ faults' = IF ok THEN faults ELSE faults + 1
    /\ mainInTx
    /\ mainInTx' = FALSE
    /\ busLocked' = FALSE
    /\ trace' = Append(trace, <<op, ok>>)
    /\ pc' = next

\* main.go:88-91
ParseConfig ==
    /\ pc = "parseConfig"
    /\ \E ok \in BOOLEAN :
          /\ ok \/ faults < MaxFaults
          /\ faults' = IF ok THEN faults ELSE faults + 1
          /\ trace' = Append(trace, <<"ParseConfig", ok>>)
          /\ pc' = IF ok THEN "connect" ELSE "returnErr"
    /\ UNCHANGED <<wdtPc, busLocked, mainInTx, now, args, win, stayOnUntil,
                   saltCommandWaitEnd, attempts, alarmTime, sleepUntil,
                   midWaitExt, staleAsk, alarmEnabledAt, maxAttempts, bcd,
                   errLog, rtcAlarm>>

\* The connect call giving up one failed probe late.
Probe_OneTooMany ==
    /\ pc = "connect"
    /\ \E ok \in BOOLEAN :
          /\ ok \/ attempts < MaxProbeFails
          /\ attempts' = IF ok THEN attempts ELSE attempts + 1
          /\ mainInTx
          /\ mainInTx' = FALSE
          /\ busLocked' = FALSE
          /\ trace' = IF ok THEN Append(trace, <<"Probe", TRUE>>) ELSE trace
          /\ pc' = IF ok THEN "startWDT"
                   ELSE IF maxAttempts # 0 /\ attempts + 1 > maxAttempts
                        THEN "returnErr" ELSE "connectRetry"
    /\ UNCHANGED <<wdtPc, now, args, win, stayOnUntil, saltCommandWaitEnd,
                   alarmTime, sleepUntil, midWaitExt, faults, staleAsk,
                   alarmEnabledAt, maxAttempts, bcd, errLog, rtcAlarm>>

\* main.go:94-97, connectToATtinyWithRetries(maxAttempts): one probe.  A
\* failed probe is retried after a fixed delay unless the budget is spent;
\* a budget of 0 is unbounded.  The history records the probe that
\* succeeded; the count of failed ones is local to the call.
Probe ==
    /\ pc = "connect"
    /\ \E ok \in BOOLEAN :
          /\ ok \/ attempts < MaxProbeFails
          /\ attempts' = IF ok THEN attempts ELSE attempts + 1
          /\ mainInTx
          /\ mainInTx' = FALSE
          /\ busLocked' = FALSE
          /\ trace' = IF ok THEN Append(trace, <<"Probe", TRUE>>) ELSE trace
          /\ pc' = IF ok THEN "startWDT"
                   ELSE IF maxAttempts # 0 /\ attempts + 1 >= maxAttempts
                        THEN "returnErr" ELSE "connectRetry"
    /\ UNCHANGED <<wdtPc, now, args, win, stayOnUntil, saltCommandWaitEnd,
                   alarmTime, sleepUntil, midWaitExt, faults, staleAsk,
                   alarmEnabledAt, maxAttempts, bcd, errLog, rtcAlarm>>

ProbeRetry ==
    /\ pc = "connectRetry"
    /\ pc' = "connect"
    /\ UNCHANGED <<wdtPc, busLocked, mainInTx, now, args, win, stayOnUntil,
                   saltCommandWaitEnd, attempts, alarmTime, sleepUntil, trace,
                   midWaitExt, faults, staleAsk, alarmEnabledAt, maxAttempts,
                   bcd, errLog, rtcAlarm>>

\* main.go:94-105: the connect call has returned its client (its failure
\* count is gone with it) and the watchdog goroutine is started.
StartWatchdog ==
    /\ pc = "startWDT"
    /\ attempts' = 0
    /\ wdtPc' = "ping"
    /\ pc' = "initRTC"
    /\ UNCHANGED <<busLocked, mainInTx, now, args, win, stayOnUntil,
                   saltCommandWaitEnd, alarmTime, sleepUntil, trace,
                   midWaitExt, faults, staleAsk, alarmEnabledAt, maxAttempts,
                   bcd, errLog, rtcAlarm>>

\* main.go:108-111
InitPCF9564 ==
    /\ pc = "initRTC"
    /\ \E ok \in BOOLEAN :
          Finish("InitPCF9564", ok, IF ok THEN "readState1" ELSE "returnErr")
    /\ UNCHANGED <<wdtPc, now, args, win, stayOnUntil, saltCommandWaitEnd,
                   attempts, alarmTime, sleepUntil, midWaitExt, staleAsk,
                   alarmEnabledAt, maxAttempts, bcd, errLog, rtcAlarm>>

\* main.go:113-115
ReadCameraState1 ==
    /\ pc = "readState1"
    /\ \E ok \in BOOLEAN :
          Finish("ReadCameraState1", ok,
                 IF ok THEN "clearAlarm" ELSE "returnErr")
    /\ UNCHANGED <<wdtPc, now, args, win, stayOnUntil, saltCommandWaitEnd,
                   attempts, alarmTime, sleepUntil, midWaitExt, staleAsk,
                   alarmEnabledAt, maxAttempts, bcd, errLog, rtcAlarm>>

\* ClearAlarmFlag with its error dropped instead of returned.
ClearAlarmFlag_ErrDropped ==
    /\ pc = "clearAlarm"
    /\ \E ok \in BOOLEAN : Finish("ClearAlarmFlag", ok, "getTime")
    /\ UNCHANGED <<wdtPc, now, args, win, stayOnUntil, saltCommandWaitEnd,
                   attempts, alarmTime, sleepUntil, midWaitExt, staleAsk,
                   alarmEnabledAt, maxAttempts, bcd, errLog, rtcAlarm>>

\* main.go:117-119
ClearAlarmFlag ==
    /\ pc = "clearAlarm"
    /\ \E ok \in BOOLEAN :
          Finish("ClearAlarmFlag", ok, IF ok THEN "getTime" ELSE "returnErr")
    /\ UNCHANGED <<wdtPc, now, args, win, stayOnUntil, saltCommandWaitEnd,
                   attempts, alarmTime, sleepUntil, midWaitExt, staleAsk,
                   alarmEnabledAt, maxAttempts, bcd, errLog, rtcAlarm>>

\* main.go:126-133: rtc.GetTime, then alarmTime := conf.OnWindow.NextStart()
GetTime ==
    /\ pc = "getTime"
    /\ \E ok \in BOOLEAN :
          /\ Finish("GetTime", ok, IF ok THEN "setAlarmTime" ELSE "returnErr")
          /\ alarmTime' = IF ok THEN NextStart(now) ELSE alarmTime
    /\ UNCHANGED <<wdtPc, now, args, win, stayOnUntil, saltCommandWaitEnd,
                   attempts, sleepUntil, midWaitExt, staleAsk, alarmEnabledAt,
                   maxAttempts, bcd, errLog, rtcAlarm>>

\* SetAlarmTime with its error dropped instead of returned.
SetAlarmTime_ErrDropped ==
    /\ pc = "setAlarmTime"
    /\ \E ok \in BOOLEAN :
          /\ Finish("SetAlarmTime", ok, "setAlarmEnabled")
          /\ rtcAlarm' = IF ok THEN AlarmTimeFromTime(alarmTime) ELSE rtcAlarm
    /\ UNCHANGED <<wdtPc, now, args, win, stayOnUntil, saltCommandWaitEnd,
                   attempts, alarmTime, sleepUntil, midWaitExt, staleAsk,
                   alarmEnabledAt, maxAttempts, bcd, errLog>>

\* main.go:135-137: rtc.SetAlarmTime(AlarmTimeFromTime(alarmTime))
SetAlarmTime ==
    /\ pc = "setAlarmTime"
    /\ \E ok \in BOOLEAN :
          /\ Finish("SetAlarmTime", ok,
                    IF ok THEN "setAlarmEnabled" ELSE "returnErr")
          /\ rtcAlarm' = IF ok THEN AlarmTimeFromTime(alarmTime) ELSE rtcAlarm
    /\ UNCHANGED <<wdtPc, now, args, win, stayOnUntil, saltCommandWaitEnd,
                   attempts, alarmTime, sleepUntil, midWaitExt, staleAsk,
                   alarmEnabledAt, maxAttempts, bcd, errLog>>

\* SetAlarmEnabled with its error dropped instead of returned.
SetAlarmEnabled_ErrDropped ==
    /\ pc = "setAlarmEnabled"
    /\ \E ok \in BOOLEAN :
          /\ Finish("SetAlarmEnabled", ok, "readState2")
          /\ alarmEnabledAt' = IF ok THEN now ELSE alarmEnabledAt
    /\ UNCHANGED <<wdtPc, now, args, win, stayOnUntil, saltCommandWaitEnd,
                   attempts, alarmTime, sleepUntil, midWaitExt, staleAsk,
                   maxAttempts, bcd, errLog, rtcAlarm>>

\* main.go:139-141
SetAlarmEnabled ==
    /\ pc = "setAlarmEnabled"
    /\ \E ok \in BOOLEAN :
          /\ Finish("SetAlarmEnabled", ok,
                    IF ok THEN "readState2" ELSE "returnErr")
          /\ alarmEnabledAt' = IF ok THEN now ELSE alarmEnabledAt
    /\ UNCHANGED <<wdtPc, now, args, win, stayOnUntil, saltCommandWaitEnd,
                   attempts, alarmTime, sleepUntil, midWaitExt, staleAsk,
                   maxAttempts, bcd, errLog, rtcAlarm>>

\* main.go:143-144, the result is discarded
ReadCameraState2 ==
    /\ pc = "readState2"
    /\ \E ok \in BOOLEAN : Finish("ReadCameraState2", ok, "grace")
    /\ UNCHANGED <<wdtPc, now, args, win, stayOnUntil, saltCommandWaitEnd,
                   attempts, alarmTime, sleepUntil, midWaitExt, staleAsk,
                   alarmEnabledAt, maxAttempts, bcd, errLog, rtcAlarm>>


\* The grace period with a sleep of 2 minutes instead of 20.
GracePeriod_TwoMinutes ==
    /\ pc = "grace"
    /\ IF args.SkipWait
         THEN /\ pc' = "window"
              /\ UNCHANGED <<sleepUntil, trace>>
         ELSE /\ pc' = "graceSleep"
              /\ sleepUntil' = now + 2
              /\ trace' = Append(trace, <<"GraceSleep", TRUE>>)
    /\ UNCHANGED <<wdtPc, busLocked, mainInTx, now, args, win, stayOnUntil,
                   saltCommandWaitEnd, attempts, alarmTime, midWaitExt,
                   faults, staleAsk, alarmEnabledAt, maxAttempts, bcd, errLog,
                   rtcAlarm>>

\* main.go:146-151
GracePeriod ==
    /\ pc = "grace"
    /\ IF args.SkipWait
         THEN /\ pc' = "window"
              /\ UNCHANGED <<sleepUntil, trace>>
         ELSE /\ pc' = "graceSleep"
              /\ sleepUntil' = now + initialGracePeriod
              /\ trace' = Append(trace, <<"GraceSleep", TRUE>>)
    /\ UNCHANGED <<wdtPc, busLocked, mainInTx, now, args, win, stayOnUntil,
                   saltCommandWaitEnd, attempts, alarmTime, midWaitExt,
                   faults, staleAsk, alarmEnabledAt, maxAttempts, bcd, errLog,
                   rtcAlarm>>

\* main.go:150, time.Sleep returns once the duration has elapsed
GraceWake ==
    /\ pc = "graceSleep"
    /\ now >= sleepUntil
    /\ pc' = "window"
    /\ UNCHANGED <<wdtPc, busLocked, mainInTx, now, args, win, stayOnUntil,
                   saltCommandWaitEnd, attempts, alarmTime, sleepUntil, trace,
                   midWaitExt, faults, staleAsk, alarmEnabledAt, maxAttempts,
                   bcd, errLog, rtcAlarm>>

\* main.go:154-157: the window decision; one sleep of time.Until(NextEnd())
AwaitWindow ==
    /\ pc = "window"
    /\ IF WindowOpenOrImminent(now)
         THEN /\ pc' = "windowSleep"
              /\ sleepUntil' = now + (NextEnd(now) - now)
              /\ trace' = Append(trace, <<"WindowSleep", TRUE>>)
         ELSE /\ pc' = "readState4"
              /\ UNCHANGED <<sleepUntil, trace>>
    /\ UNCHANGED <<wdtPc, busLocked, mainInTx, now, args, win, stayOnUntil,
                   saltCommandWaitEnd, attempts, alarmTime, midWaitExt,
                   faults, staleAsk, alarmEnabledAt, maxAttempts, bcd, errLog,
                   rtcAlarm>>

\* main.go:157-158
WindowWake ==
    /\ pc = "windowSleep"
    /\ now >= sleepUntil
    /\ pc' = "readState3"
    /\ UNCHANGED <<wdtPc, busLocked, mainInTx, now, args, win, stayOnUntil,
                   saltCommandWaitEnd, attempts, alarmTime, sleepUntil, trace,
                   midWaitExt, faults, staleAsk, alarmEnabledAt, maxAttempts,
                   bcd, errLog, rtcAlarm>>

\* main.go:159-160, the result is discarded
ReadCameraState3 ==
    /\ pc = "readState3"
    /\ \E ok \in BOOLEAN : Finish("ReadCameraState3", ok, "readState4")
    /\ UNCHANGED <<wdtPc, now, args, win, stayOnUntil, saltCommandWaitEnd,
                   attempts, alarmTime, sleepUntil, midWaitExt, staleAsk,
                   alarmEnabledAt, maxAttempts, bcd, errLog, rtcAlarm>>

\* main.go:163-164, the result is discarded
ReadCameraState4 ==
    /\ pc = "readState4"
    /\ \E ok \in BOOLEAN : Finish("ReadCameraState4", ok, "poweringOff")
    /\ UNCHANGED <<wdtPc, now, args, win, stayOnUntil, saltCommandWaitEnd,
                   attempts, alarmTime, sleepUntil, midWaitExt, staleAsk,
                   alarmEnabledAt, maxAttempts, bcd, errLog, rtcAlarm>>

\* PoweringOff followed at once by the return, the OS shutdown left out.
PoweringOff_ThenReturn ==
    /\ pc = "poweringOff"
    /\ \E ok \in BOOLEAN :
          Finish("PoweringOff", ok, IF ok THEN "returnNil" ELSE "returnErr")
    /\ UNCHANGED <<wdtPc, now, args, win, stayOnUntil, saltCommandWaitEnd,
                   attempts, alarmTime, sleepUntil, midWaitExt, staleAsk,
                   alarmEnabledAt, maxAttempts, bcd, errLog, rtcAlarm>>

\* PoweringOff with its error dropped instead of returned.
PoweringOff_ErrDropped ==
    /\ pc = "poweringOff"
    /\ \E ok \in BOOLEAN : Finish("PoweringOff", ok, "readState5")
    /\ UNCHANGED <<wdtPc, now, args, win, stayOnUntil, saltCommandWaitEnd,
                   attempts, alarmTime, sleepUntil, midWaitExt, staleAsk,
                   alarmEnabledAt, maxAttempts, bcd, errLog, rtcAlarm>>

\* main.go:165-167
PoweringOff ==
    /\ pc = "poweringOff"
    /\ \E ok \in BOOLEAN :
          Finish("PoweringOff", ok, IF ok THEN "readState5" ELSE "returnErr")
    /\ UNCHANGED <<wdtPc, now, args, win, stayOnUntil, saltCommandWaitEnd,
                   attempts, alarmTime, sleepUntil, midWaitExt, staleAsk,
                   alarmEnabledAt, maxAttempts, bcd, errLog, rtcAlarm>>

\* main.go:168-169, the result is discarded
ReadCameraState5 ==
    /\ pc = "readState5"
    /\ \E ok \in BOOLEAN : Finish("ReadCameraState5", ok, "shutdown")
    /\ UNCHANGED <<wdtPc, now, args, win, stayOnUntil, saltCommandWaitEnd,
                   attempts, alarmTime, sleepUntil, midWaitExt, staleAsk,
                   alarmEnabledAt, maxAttempts, bcd, errLog, rtcAlarm>>

\* runMain returning without the call of shutdown().
shutdown_NotCalled ==
    /\ pc = "shutdown"
    /\ pc' = "returnNil"
    /\ UNCHANGED <<wdtPc, busLocked, mainInTx, now, args, win, stayOnUntil,
                   saltCommandWaitEnd, attempts, alarmTime, sleepUntil, trace,
                   midWaitExt, faults, staleAsk, alarmEnabledAt, maxAttempts,
                   bcd, errLog, rtcAlarm>>

\* main.go:170-171 and 209-216: shutdown() runs /sbin/poweroff whatever
\* args.SkipSystemShutdown says; runMain drops its error and returns nil.
shutdown ==
    /\ pc = "shutdown"
    /\ \E ok \in BOOLEAN :
          /\ ok \/ faults < MaxFaults
          /\ faults' = IF ok THEN faults ELSE faults + 1
          /\ trace' = Append(trace, <<"shutdown", ok>>)
    /\ pc' = "returnNil"
    /\ UNCHANGED <<wdtPc, busLocked, mainInTx, now, args, win, stayOnUntil,
                   saltCommandWaitEnd, attempts, alarmTime, sleepUntil,
                   midWaitExt, staleAsk, alarmEnabledAt, maxAttempts, bcd,
                   errLog, rtcAlarm>>

\* The error runMain returns: that of the call that failed last, or the
\* ConnectionError of a connect call whose budget is spent.
ReturnedError ==
    IF trace # <<>> /\ ~trace[Len(trace)][2]
      THEN trace[Len(trace)][1] ELSE "ConnectionError"

\* main.go:71-74: runMain returned an error, log.Fatal writes it to the log
\* and exits with status 1
MainFatal ==
    /\ pc = "returnErr"
    /\ pc' = "fatal"
    /\ errLog' = errLog \cup {ReturnedError}
    /\ UNCHANGED <<wdtPc, busLocked, mainInTx, now, args, win, stayOnUntil,
                   saltCommandWaitEnd, attempts, alarmTime, sleepUntil, trace,
                   midWaitExt, faults, staleAsk, alarmEnabledAt, maxAttempts,
                   bcd, rtcAlarm>>

\* main.go:75-77: runMain returned nil, main returns and the process ends
MainReturn ==
    /\ pc = "returnNil"
    /\ pc' = "exit0"
    /\ UNCHANGED <<wdtPc, busLocked, mainInTx, now, args, win, stayOnUntil,
                   saltCommandWaitEnd, attempts, alarmTime, sleepUntil, trace,
                   midWaitExt, faults, staleAsk, alarmEnabledAt, maxAttempts,
                   bcd, errLog, rtcAlarm>>

\* ------------------------------------------------------------ specification
Next ==
    \/ Tick
    \/ ExtendAny
    \/ WdtPingBegin
    \/ WdtPingEnd
    \/ WdtWake
    \/ MainTxBegin
    \/ ParseConfig
    \/ Probe
    \/ ProbeRetry
    \/ StartWatchdog
    \/ InitPCF9564
    \/ ReadCameraState1
    \/ ClearAlarmFlag
    \/ GetTime
    \/ SetAlarmTime
    \/ SetAlarmEnabled
    \/ ReadCameraState2
    \/ GracePeriod
    \/ GraceWake
    \/ AwaitWindow
    \/ WindowWake
    \/ ReadCameraState3
    \/ ReadCameraState4
    \/ PoweringOff
    \/ ReadCameraState5
    \/ shutdown
    \/ MainFatal
    \/ MainReturn

Spec == Init /\ [][Next]_vars

\* The Go scheduler runs every runnable goroutine: a step of the main
\* sequence or of the watchdog goroutine that stays possible is taken.  The
\* clock is left without fairness, so a sleep may last for ever.
MainStep ==
    \/ MainTxBegin
    \/ ParseConfig
    \/ Probe
    \/ ProbeRetry
    \/ StartWatchdog
    \/ InitPCF9564
    \/ ReadCameraState1
    \/ ClearAlarmFlag
    \/ GetTime
    \/ SetAlarmTime
    \/ SetAlarmEnabled
    \/ ReadCameraState2
    \/ GracePeriod
    \/ GraceWake
    \/ AwaitWindow
    \/ WindowWake
    \/ ReadCameraState3
    \/ ReadCameraState4
    \/ PoweringOff
    \/ ReadCameraState5
    \/ shutdown
    \/ MainFatal
    \/ MainReturn

FairSpec ==
    /\ Spec
    /\ WF_vars(MainStep)
    /\ WF_vars(WdtPingBegin)
    /\ WF_vars(WdtPingEnd)
    /\ WF_vars(WdtWake)

\* Fair scheduling with time passing: a sleep ends, and the main sequence,
\* which asks for the bus again and again while the watchdog goroutine
\* sleeps between its pings, gets the bus.
LiveSpec ==
    /\ FairSpec
    /\ WF_vars(Tick)
    /\ SF_vars(MainTxBegin)

\* The connect call on its own, made with a finite budget: start-up, the
\* probes and their retries, and the error exit.
RetryNext ==
    \/ ParseConfig
    \/ MainTxBegin
    \/ Probe
    \/ ProbeRetry
    \/ MainFatal

RetrySpec == RetryInit /\ [][RetryNext]_vars

\* The BCD codec on its own: a number is encoded with toBCD and the byte is
\* decoded with fromBCD.
Encode ==
    /\ bcd.phase = "input"
    /\ bcd' = [bcd EXCEPT !.phase = "encoded", !.byte = toBCD(bcd.n)]
    /\ UNCHANGED <<pc, wdtPc, busLocked, mainInTx, now, args, win,
                   stayOnUntil, saltCommandWaitEnd, attempts, alarmTime,
                   sleepUntil, trace, midWaitExt, faults, staleAsk,
                   alarmEnabledAt, maxAttempts, errLog, rtcAlarm>>

Decode ==
    /\ bcd.phase = "encoded"
    /\ bcd' = [bcd EXCEPT !.phase = "decoded", !.out = fromBCD(bcd.byte)]
    /\ UNCHANGED <<pc, wdtPc, busLocked, mainInTx, now, args, win,
                   stayOnUntil, saltCommandWaitEnd, attempts, alarmTime,
                   sleepUntil, trace, midWaitExt, faults, staleAsk,
                   alarmEnabledAt, maxAttempts, errLog, rtcAlarm>>

BcdInit ==
    /\ InitBase
    /\ maxAttempts = ConnectMaxAttempts
    /\ bcd \in {[phase |-> "input", n |-> n, byte |-> 0, out |-> 0] :
                   n \in 0 .. MaxBcdInput}

BcdNext == Encode \/ Decode

BcdSpec == BcdInit /\ [][BcdNext]_vars

TypeOK ==
    /\ busLocked \in BOOLEAN
    /\ mainInTx \in BOOLEAN
    /\ wdtPc \in {"notStarted", "ping", "pinging", "sleep"}
    /\ now \in 0 .. MaxTime
    /\ Len(trace) <= 20

\* ------------------------------------------------------------------ claims
WaitEntries == {"GraceSleep", "WindowSleep"}

\* Some position of the history before i holds a successful call of op.
DoneBefore(op, i) == \E j \in 1 .. (i - 1) : trace[j] = <<op, TRUE>>

\* C1: whenever a wait (the grace-period sleep or the window sleep) has been
\* entered, ClearAlarmFlag, SetAlarmTime and SetAlarmEnabled(true) had all
\* returned successfully earlier in the run.
C1_AlarmProgrammedBeforeAnyWait ==
    /\ pc \in {"graceSleep", "windowSleep"} =>
          \E i \in DOMAIN trace : trace[i][1] \in WaitEntries
    /\ \A i \in DOMAIN trace :
          trace[i][1] \in WaitEntries =>
              /\ DoneBefore("ClearAlarmFlag", i)
              /\ DoneBefore("SetAlarmTime", i)
              /\ DoneBefore("SetAlarmEnabled", i)

\* C1 witness: both waits were entered in one run.
C1_Witness == pc = "windowSleep" /\ Called("GraceSleep")

\* The steps of Connecting whose error runMain returns.
ConnectingOps == {"InitPCF9564", "ReadCameraState1", "ClearAlarmFlag",
                  "GetTime", "SetAlarmTime", "SetAlarmEnabled"}

ConnectingFailed == \E op \in ConnectingOps : Failed(op)

\* C2: once a Connecting step has failed, the run is on its error exit: no
\* wait was or is entered, PoweringOff is not issued and the OS shutdown is
\* not invoked.
C2_ConnectingFailureIsFatal ==
    ConnectingFailed =>
        /\ pc \in {"returnErr", "fatal"}
        /\ ~Called("GraceSleep")
        /\ ~Called("WindowSleep")
        /\ ~Called("PoweringOff")
        /\ ~Called("shutdown")

\* C2 witness: the run died on a failed Connecting step.
C2_Witness == pc = "fatal" /\ ConnectingFailed

\* C3: a StayOn extension to T1, requested while the window sleep is in
\* progress and later than the window end the sleep was computed for, holds
\* the shutdown back: the orchestrator is not past the window wait while the
\* clock is before T1.
C3_MidWaitExtensionHonoured ==
    pc \in {"readState3", "readState4", "poweringOff", "readState5",
            "shutdown", "returnNil", "exit0"} => now >= midWaitExt

\* C4: the window wait ends only once the clock has reached the window end
\* and both deadlines, stayOnUntil and the maintenance pause.
C4_WaitTargetIsMaxOfThree ==
    [][(pc = "windowSleep" /\ pc' # "windowSleep") =>
          now >= Max3(sleepUntil, stayOnUntil, saltCommandWaitEnd)]_vars

RunOver == pc \in {"returnNil", "exit0", "returnErr", "fatal"}

\* No call to a device failed so far (the OS power-off is not a device).
DeviceOpsOk == \A i \in DOMAIN trace : trace[i][1] # "shutdown" => trace[i][2]

C7_SkipSystemShutdownHonoured ==
    /\ args.SkipSystemShutdown => ~Called("shutdown")
    /\ \A i \in DOMAIN trace :
          trace[i][1] = "shutdown" =>
              \E j \in 1 .. (i - 1) : trace[j][1] = "ReadCameraState5"

\* C8: a failed OS power-off command puts the run on its error exit; it
\* never ends as a successful run.
C8_FailedShutdownIsFatal ==
    Failed("shutdown") => pc \in {"returnErr", "fatal"}

\* Failed calls that are not in the history: failed pings.
PingFailures == faults - Cardinality({i \in DOMAIN trace : ~trace[i][2]})

\* C9: once started, the watchdog goroutine never leaves its loop; the end
\* of a ping, failed or not, puts it to sleep for the next cycle and leaves
\* the main sequence where it is; and as long as the process lives another
\* ping always follows, also while the main sequence sleeps for ever.
C9_WatchdogKeepsPinging ==
    /\ [][wdtPc # "notStarted" => wdtPc' # "notStarted"]_vars
    /\ [][(wdtPc = "pinging" /\ wdtPc' # "pinging") =>
             (wdtPc' = "sleep" /\ pc' = pc /\ trace' = trace)]_vars
    /\ [](wdtPc # "notStarted" => <>(wdtPc = "pinging" \/ ~Alive))

\* C9 witness: a ping has failed, the main sequence is blocked in the window
\* sleep and the next ping is in progress.
C9_Witness ==
    /\ PingFailures > 0
    /\ pc = "windowSleep"
    /\ wdtPc = "pinging"

\* C10: a ping transaction and a main-sequence transaction are never in
\* progress together; the bus lock is held exactly while one transaction is
\* in progress, so never while its holder waits or sleeps.
C10_BusTransactionsSerialized ==
    /\ ~(mainInTx /\ wdtPc = "pinging")
    /\ busLocked <=> (mainInTx \/ wdtPc = "pinging")
    /\ pc \in {"connectRetry", "graceSleep", "windowSleep"} => ~mainInTx
    /\ mainInTx => pc \in TxPcs

\* C10 witness: the watchdog waits for the lock while a transaction of the
\* main sequence holds it.
C10_Witness == mainInTx /\ busLocked /\ wdtPc = "ping"

\* C11: no step lowers stayOnUntil or saltCommandWaitEnd; an Extend asking
\* for a deadline no later than the stored one leaves both deadlines as they
\* are and does not disturb the main sequence.
C11_DeadlineRatchet ==
    [][/\ stayOnUntil' >= stayOnUntil
       /\ saltCommandWaitEnd' >= saltCommandWaitEnd
       /\ \A t \in ExtendTargets :
             /\ (Extend("StayOn", t) /\ t <= stayOnUntil) =>
                   UNCHANGED <<stayOnUntil, saltCommandWaitEnd, pc, trace>>
             /\ (Extend("MaintenancePause", t) /\ t <= saltCommandWaitEnd) =>
                   UNCHANGED <<stayOnUntil, saltCommandWaitEnd, pc, trace>>
      ]_vars

\* C11 witness: after Extend(StayOn, T) an Extend(StayOn, T - 1) was made
\* and the stored deadline is still T.
C11_Witness == staleAsk /\ stayOnUntil = ExtendTo /\ Alive

\* The positions from the window decision on.
PastGrace == {"window", "windowSleep", "readState3", "readState4",
              "poweringOff", "readState5", "shutdown", "returnNil", "exit0"}

\* C12: without skip-wait, the window is evaluated, PoweringOff issued and
\* the OS shutdown invoked only after the grace sleep and at least 20
\* minutes after the alarm was enabled; with skip-wait there is no grace
\* sleep and the window is evaluated at once.
C12_GracePeriodBeforeShutdown ==
    /\ (~args.SkipWait /\ (pc \in PastGrace \/ Called("PoweringOff")
                                            \/ Called("shutdown"))) =>
          /\ Called("GraceSleep")
          /\ alarmEnabledAt >= 0
          /\ now >= alarmEnabledAt + 20
    /\ args.SkipWait =>
          /\ ~Called("GraceSleep")
          /\ pc # "graceSleep"
          /\ pc = "window" => now = alarmEnabledAt

\* C12 witness: PoweringOff was issued exactly 20 minutes after the alarm
\* was enabled, the grace period not being skipped.
C12_Witness ==
    /\ ~args.SkipWait
    /\ Did("PoweringOff")
    /\ now = alarmEnabledAt + 20

\* C13: with a budget of maxAttempts >= 1, the probe made after n failures
\* is attempt n + 1 and is within the budget; if it succeeds the call
\* succeeds at once; if it fails, the call returns ConnectionError exactly
\* when it was attempt number maxAttempts, and retries otherwise.  So N
\* failures then a success make a budget of N + 1 succeed on attempt N + 1,
\* and a transport that always fails ends a budget of N after N attempts.
C13_RetryBound ==
    [][(pc = "connect" /\ pc' # "connect") =>
          /\ attempts + 1 <= maxAttempts
          /\ (pc' = "startWDT") <=>
                (trace' = Append(trace, <<"Probe", TRUE>>))
          /\ pc' = "startWDT" => attempts' = attempts
          /\ pc' # "startWDT" =>
                /\ attempts' = attempts + 1
                /\ pc' = IF attempts' = maxAttempts THEN "returnErr"
                                                    ELSE "connectRetry"
      ]_vars

\* C13 witness: the call succeeded on the last attempt of its budget, after
\* at least one failed probe.
C13_Witness ==
    /\ pc = "startWDT"
    /\ attempts >= 1
    /\ attempts + 1 = maxAttempts

\* C14: for every n in 0..99, toBCD(n) is (n / 10) * 16 + n % 10, which
\* fits a byte, and fromBCD gives n back.
C14_BcdRoundTrip ==
    /\ (bcd.phase \in {"encoded", "decoded"} /\ bcd.n \in 0 .. 99) =>
          /\ bcd.byte = (bcd.n \div 10) * 16 + (bcd.n % 10)
          /\ bcd.byte < 256
    /\ (bcd.phase = "decoded" /\ bcd.n \in 0 .. 99) => bcd.out = bcd.n

\* C14 witness: 99 was encoded as 0x99 and decoded again.
C14_Witness == bcd.phase = "decoded" /\ bcd.n = 99 /\ bcd.byte = 153

\* C15: every failed call has its failure in the log, or is the error that
\* runMain is returning to main for log.Fatal; a failed ping is in the log.
C15_EveryFailureLogged ==
    /\ \A i \in DOMAIN trace :
          ~trace[i][2] =>
              \/ trace[i][1] \in errLog
              \/ pc = "returnErr" /\ i = Len(trace)
    /\ PingFailures > 0 => "PingWatchdog" \in errLog

\* PoweringOff has been issued: its transaction is under way or over.
PoweringOffIssued ==
    (pc = "poweringOff" /\ mainInTx) \/ Called("PoweringOff")

\* C16: when PoweringOff is issued, ClearAlarmFlag, SetAlarmTime and
\* SetAlarmEnabled have all succeeded in this run, and the alarm written to
\* the RTC is the next window start as it was when the alarm was set.
C16_PoweringOffOnlyWithAlarmSet ==
    PoweringOffIssued =>
        /\ Did("ClearAlarmFlag")
        /\ Did("SetAlarmTime")
        /\ Did("SetAlarmEnabled")
        /\ alarmEnabledAt >= 0
        /\ rtcAlarm = AlarmTimeFromTime(NextStart(alarmEnabledAt))

\* C16 witness: PoweringOff is under way after a window sleep.
C16_Witness == pc = "poweringOff" /\ mainInTx /\ Called("WindowSleep")

\* C17: a failed PoweringOff puts the run on its error exit without the OS
\* shutdown; the OS shutdown is invoked only after a successful PoweringOff.
C17_FailedPoweringOffIsFatal ==
    /\ Failed("PoweringOff") =>
          /\ pc \in {"returnErr", "fatal"}
          /\ ~Called("shutdown")
    /\ (pc = "shutdown" \/ Called("shutdown")) => Did("PoweringOff")

\* C17 witness: the run died on a failed PoweringOff.
C17_Witness == pc = "fatal" /\ Failed("PoweringOff") /\ ~Called("shutdown")

\* C18: after the main sequence has returned without error, the watchdog
\* goroutine pings again.
C18_WatchdogOutlivesSuccess == [](pc = "exit0" => <>(wdtPc = "pinging"))

\* The RTC transactions of the main sequence and their positions.
RtcOps == {"InitPCF9564", "ClearAlarmFlag", "GetTime", "SetAlarmTime",
           "SetAlarmEnabled"}
RtcPcs == {"initRTC", "clearAlarm", "getTime", "setAlarmTime",
           "setAlarmEnabled"}

\* C19: the connect call being made with maxAttempts = 0, as long as no
\* probe has succeeded, however many have failed, the run is still
\* connecting (or has died on its configuration), the watchdog
\* goroutine is not started and no RTC transaction has been made; the run
\* never ends with ConnectionError; the watchdog goroutine is started
\* before the first RTC transaction.
C19_UnboundedConnectThenWatchdogThenRtc ==
    /\ ~Did("Probe") =>
          /\ \/ pc \in {"parseConfig", "connect", "connectRetry"}
             \/ pc \in {"returnErr", "fatal"} /\ Failed("ParseConfig")
          /\ wdtPc = "notStarted"
          /\ \A op \in RtcOps : ~Called(op)
    /\ pc = "returnErr" => ReturnedError # "ConnectionError"
    /\ "ConnectionError" \notin errLog
    /\ (pc \in RtcPcs \/ \E op \in RtcOps : Called(op)) =>
          /\ wdtPc # "notStarted"
          /\ Did("Probe")

\* C19 witness: two probes have failed and the run is about to try again.
C19_Witness ==
    /\ pc = "connectRetry"
    /\ attempts >= 2
    /\ wdtPc = "notStarted"

====
